---- MODULE Spec2Model ----
(***************************************************************************)
(* Payment-confirmation core of the Runic Vault MCP server.                *)
(*                                                                         *)
(* The model covers the cart store (src/src/store/cart.ts), the order      *)
(* tracker (src/src/unicity/payment-tracker.ts), the NostrService          *)
(* (src/unnamed/part_009) and the two payment tools checkout_with_unicity  *)
(* and confirm_payment (src/src/tools/index.ts).                           *)
(*                                                                         *)
(* JavaScript runs every handler to its next `await` without interruption; *)
(* each action below is one such run: from a call or a resumption up to    *)
(* the next suspension or the return.  The continuation of a caller that   *)
(* awaits a promise runs in the microtask queue right after the promise is *)
(* settled, before any timer or I/O callback, so it is part of the action  *)
(* that settles the promise.                                               *)
(***************************************************************************)
EXTENDS Integers, Sequences, FiniteSets, TLC

\* ---------------------------------------------------------------- bounds
MaxLines  == 1   \* lines a cart can hold
MaxReq    == 2   \* payment requests the relay client issues
MaxWaits  == 2   \* waitForPayment promises alive at a time
MaxEvents == 2   \* inbound relay events
MaxTime   == 3   \* ticks of the clock

\* ---------------------------------------------------------------- constants
MaxRetries     == 3     \* resolvePubkeyWithRetry, maxRetries default
MaxWaitSeconds == 120   \* confirm_payment clamp

CartIds     == {"c1", "c2"}          \* ids createCart can hand out
MissingCart == "c0"                  \* an id no cart ever has
AllCartIds  == CartIds \cup {MissingCart}
Checkouts   == {"k1", "k2"}          \* concurrent checkout_with_unicity calls
Confirms    == {"f1", "f2"}          \* concurrent confirm_payment calls
UnicityIds  == {<<"@", "a">>, <<"b">>} \* caller-supplied aliases, as characters
Pubkeys     == {"pkA", "pkB"}
NoPubkey    == "null"
WaitInputs  == {-1, 0, 7}            \* caller-supplied waitSeconds
ClampInputs == {-5, -1, 0, 1, 7, 120, 121, 500}
Initializers == {"i1", "i2", "i3"}   \* callers of NostrService.initialize

VARIABLES
  carts,             \* cart.ts `carts`: cart id -> cart
  orders,            \* payment-tracker.ts `orders`: cart id -> order
  nextOrderId,       \* stands for randomUUID() in trackOrder
  checkoutLocks,     \* tools/index.ts `checkoutLocks`
  isInitialized,     \* NostrService.isInitialized (client, config, identity set)
  pendingPayments,   \* NostrService.pendingPayments, in insertion order
  confirmedPayments, \* NostrService.confirmedPayments: cart id -> record
  waits,             \* the PendingPaymentInternal objects: promise + timer
  nextReq,           \* the event id client.sendPaymentRequest hands out next
  handlers,          \* handleIncomingTransfer invocations, one per event
  nextEvt,
  savedTokens,       \* events whose token saveReceivedToken wrote to disk
  ck,                \* checkout_with_unicity calls
  cf,                \* confirm_payment calls
  now,               \* Date.now(), in units of the model's clock
  client,            \* NostrService.client: 0 is null, 1 a NostrClient
  connections,       \* relay connections opened since the last shutdown
  subscriptions,     \* client.subscribe calls since the last shutdown
  ini                \* NostrService.initialize calls

initVars == <<client, connections, subscriptions, ini>>

vars == <<carts, orders, nextOrderId, checkoutLocks, isInitialized,
          pendingPayments, confirmedPayments, waits, nextReq,
          handlers, nextEvt, savedTokens, ck, cf, now, initVars>>

storeVars   == <<carts, orders, nextOrderId>>
serviceVars == <<isInitialized, pendingPayments, confirmedPayments, waits,
                 handlers, nextEvt, savedTokens>>

\* ---------------------------------------------------------------- cart store
NoCart == [exists |-> FALSE, lines |-> 0, subtotalCents |-> 0,
           lockedForCheckout |-> FALSE]

\* recalculateCart: the subtotal is the sum of the line totals; every line
\* of the model holds one item of one minor unit.
recalculateCart(lines) == lines

createCart(cs, c) ==
  [cs EXCEPT ![c] = [exists |-> TRUE, lines |-> 0, subtotalCents |-> 0,
                     lockedForCheckout |-> FALSE]]

getCart(cs, c) == IF c \in CartIds THEN cs[c] ELSE NoCart

lockCartForCheckout(cs, c) ==
  IF c \in CartIds /\ cs[c].exists
  THEN [cs EXCEPT ![c].lockedForCheckout = TRUE] ELSE cs

unlockCart(cs, c) ==
  IF c \in CartIds /\ cs[c].exists
  THEN [cs EXCEPT ![c].lockedForCheckout = FALSE] ELSE cs

addToCart(cs, c) ==
  IF ~cs[c].exists \/ cs[c].lockedForCheckout THEN cs
  ELSE [cs EXCEPT ![c].lines = @ + 1,
                  ![c].subtotalCents = recalculateCart(cs[c].lines + 1)]

removeFromCart(cs, c) ==
  IF ~cs[c].exists \/ cs[c].lockedForCheckout \/ cs[c].lines = 0 THEN cs
  ELSE [cs EXCEPT ![c].lines = @ - 1,
                  ![c].subtotalCents = recalculateCart(cs[c].lines - 1)]

\* clearCart, lines 191-202: no test of lockedForCheckout
clearCart(cs, c) ==
  IF ~cs[c].exists THEN cs
  ELSE [cs EXCEPT ![c].lines = 0, ![c].subtotalCents = 0]

\* ---------------------------------------------------------------- order tracker
NoOrder == [id |-> 0, status |-> "none", totalAmountCents |-> 0,
            paymentEventId |-> 0, unicityId |-> <<>>, paidAt |-> FALSE,
            createdAt |-> 0, updatedAt |-> 0]

getOrderByCartId(os, c) == IF c \in CartIds THEN os[c] ELSE NoOrder

trackOrder(os, c, id, total) ==
  [os EXCEPT ![c] = [id |-> id, status |-> "pending",
                     totalAmountCents |-> total, paymentEventId |-> 0,
                     unicityId |-> <<>>, paidAt |-> FALSE,
                     createdAt |-> now, updatedAt |-> now]]

\* An update that stamps no paid-at time
setStatusOnly(os, c, status) ==
  IF c \notin CartIds \/ os[c].status = "none" THEN os
  ELSE [os EXCEPT ![c].status = status, ![c].updatedAt = now]

\* An update that keeps the status of a paid or cancelled order and only
\* records the time of the call
guardedUpdate(os, c, status) ==
  IF c \notin CartIds \/ os[c].status = "none" THEN os
  ELSE IF os[c].status \in {"paid", "cancelled"}
  THEN [os EXCEPT ![c].updatedAt = now]
  ELSE [os EXCEPT ![c].status = status,
                  ![c].updatedAt = now,
                  ![c].paidAt = IF status = "paid" THEN TRUE ELSE @]

updateOrderStatus(os, c, status) ==
  IF c \notin CartIds \/ os[c].status = "none" THEN os
  ELSE [os EXCEPT ![c].status = status,
                  ![c].updatedAt = now,
                  ![c].paidAt = IF status = "paid" THEN TRUE ELSE @]

markAwaitingPayment(os, c, eventId, unicityId) ==
  IF c \notin CartIds \/ os[c].status = "none" THEN os
  ELSE [os EXCEPT ![c].status = "awaiting_payment",
                  ![c].paymentEventId = eventId,
                  ![c].unicityId = unicityId,
                  ![c].updatedAt = now]

markPaid(os, c) == updateOrderStatus(os, c, "paid")

\* A timeout that leaves the order as it is
keepOrderStatus(os, c) == os

markPaymentTimeout(os, c) == updateOrderStatus(os, c, "payment_timeout")

markCancelled(os, c) == updateOrderStatus(os, c, "cancelled")

\* pruneOldOrders, line 176
terminalStatuses == {"paid", "cancelled", "payment_timeout"}

\* A pruning that measures the age from the order's creation
pruneByCreation(os, maxAgeMs) ==
  [c \in CartIds |->
     IF os[c].status \in terminalStatuses /\ now - os[c].createdAt > maxAgeMs
     THEN NoOrder ELSE os[c]]

\* pruneOldOrders, lines 179-189: the orders map after the loop
pruneOldOrders(os, maxAgeMs) ==
  [c \in CartIds |->
     IF os[c].status \in terminalStatuses /\ now - os[c].updatedAt > maxAgeMs
     THEN NoOrder ELSE os[c]]

\* pruneOldOrders, line 195: the count it returns
prunedCount(os, maxAgeMs) ==
  Cardinality({c \in CartIds : os[c].status # "none"})
    - Cardinality({c \in CartIds : pruneOldOrders(os, maxAgeMs)[c].status # "none"})

\* ---------------------------------------------------------------- NostrService
\* unicityId.startsWith("@") ? unicityId.slice(1) : unicityId
Normalize(unicityId) ==
  IF Len(unicityId) > 0 /\ Head(unicityId) = "@" THEN Tail(unicityId)
  ELSE unicityId

\* A delay that does not grow
constantDelayMs(attempt) == 1000

\* resolvePubkeyWithRetry, line 498: 1000 * Math.pow(2, attempt - 1)
backoffDelayMs(attempt) == 1000 * 2 ^ (attempt - 1)

\* The nametag bindings the relay holds; queryPubkeyByNametag answers from
\* them, or with null when the lookup finds nothing or times out; the
\* promise it returns can also reject (LookupError).
LookupError == "error"

Binding(nametag) ==
  IF nametag = <<"a">> THEN "pkA" ELSE IF nametag = <<"b">> THEN "pkB"
  ELSE NoPubkey

queryPubkeyByNametag(nametag) == {NoPubkey, Binding(nametag), LookupError}

\* A PendingPaymentInternal object with its promise and its timer.  outcome
\* is the promise's state, timer is "armed" until it fires or is cleared.
NoWait == [cartId |-> MissingCart, eventId |-> 0, unicityId |-> <<>>,
           customerPubkey |-> NoPubkey, amountTokens |-> 0, timeoutMs |-> 0,
           outcome |-> "unused", timer |-> "none"]

\* An object nothing can reach any more: its promise is settled, its timer
\* is off and no handler holds it.  Its fields are dropped from the state.
DeadWait == [NoWait EXCEPT !.outcome = "settled", !.timer = "off"]

collect(ws, hs) ==
  [w \in DOMAIN ws |->
     IF /\ ws[w].outcome \notin {"unused", "pending"}
        /\ ws[w].timer # "armed"
        /\ \A e \in DOMAIN hs : hs[e].wait # w
     THEN DeadWait ELSE ws[w]]

NoConfirmed == [cartId |-> MissingCart, requestEventId |-> 0,
                transferEventId |-> 0]

\* Map.get(eventId): the entry's position in insertion order, 0 when absent
pendingIndex(pp, ws, eventId) ==
  IF \E i \in DOMAIN pp : ws[pp[i]].eventId = eventId
  THEN CHOOSE i \in DOMAIN pp : ws[pp[i]].eventId = eventId
  ELSE 0

pendingHas(pp, ws, eventId) == pendingIndex(pp, ws, eventId) # 0

pendingGet(pp, ws, eventId) ==
  IF pendingHas(pp, ws, eventId) THEN pp[pendingIndex(pp, ws, eventId)] ELSE 0

\* Map.set(eventId, entry): an existing key keeps its position and gets the
\* new entry, a new key goes last
pendingSet(pp, ws, eventId, w) ==
  IF pendingHas(pp, ws, eventId)
  THEN [pp EXCEPT ![pendingIndex(pp, ws, eventId)] = w]
  ELSE Append(pp, w)

\* Map.delete(eventId)
pendingDelete(pp, ws, eventId) ==
  SelectSeq(pp, LAMBDA x : ws[x].eventId # eventId)

\* The sender fallback of handleIncomingTransfer: first entry in insertion
\* order whose customerPubkey is the sender
matchBySender(pp, ws, sender) ==
  IF \E i \in DOMAIN pp : ws[pp[i]].customerPubkey = sender
  THEN pp[CHOOSE i \in DOMAIN pp :
            /\ ws[pp[i]].customerPubkey = sender
            /\ \A j \in 1..(i - 1) : ws[pp[j]].customerPubkey # sender]
  ELSE 0

\* A matching that tries the sender before the reply-to reference
matchSenderFirst(pp, ws, replyTo, sender) ==
  IF matchBySender(pp, ws, sender) # 0 THEN matchBySender(pp, ws, sender)
  ELSE IF replyTo # 0 THEN pendingGet(pp, ws, replyTo)
  ELSE 0

\* A matching that takes the oldest entry whatever the event says
matchOldest(pp, ws, replyTo, sender) == IF pp # <<>> THEN pp[1] ELSE 0

\* handleIncomingTransfer, lines 378-393: reply-to first, then the sender
matchPending(pp, ws, replyTo, sender) ==
  IF replyTo # 0 /\ pendingHas(pp, ws, replyTo)
  THEN pendingGet(pp, ws, replyTo)
  ELSE matchBySender(pp, ws, sender)

getPendingPaymentByCartId(pp, ws, c) ==
  IF \E i \in DOMAIN pp : ws[pp[i]].cartId = c
  THEN pp[CHOOSE i \in DOMAIN pp :
            /\ ws[pp[i]].cartId = c
            /\ \A j \in 1..(i - 1) : ws[pp[j]].cartId # c]
  ELSE 0

getConfirmedPayment(cp, c) == IF c \in CartIds THEN cp[c] ELSE NoConfirmed

\* The promise settles once: a later resolve or reject changes nothing.
\* The wrapped resolve of waitForPayment clears the timer first.
resolveWait(ws, w) ==
  [ws EXCEPT ![w].timer = IF @ = "armed" THEN "off" ELSE @,
             ![w].outcome = IF @ = "pending" THEN "confirmed" ELSE @]

rejectWait(ws, w, reason) ==
  [ws EXCEPT ![w].outcome = IF @ = "pending" THEN reason ELSE @]

\* handleIncomingTransfer, line 428
amountMismatch(hasAmount, transferAmount, amountTokens) ==
  hasAmount /\ transferAmount # amountTokens

\* ---------------------------------------------------------------- processes
NoResult == [kind |-> "none", eventId |-> 0, transferEventId |-> 0,
             reason |-> "none"]

Result(kind, eventId, transferEventId, reason) ==
  [kind |-> kind, eventId |-> eventId, transferEventId |-> transferEventId,
   reason |-> reason]

IdleCheckout == [pc |-> "idle", cartId |-> MissingCart, unicityId |-> <<>>,
                 line |-> 0, errors |-> FALSE, amountTokens |-> 0,
                 attempt |-> 0, delayMs |-> 0, customerPubkey |-> NoPubkey,
                 result |-> NoResult]

IdleConfirm == [pc |-> "idle", cartId |-> MissingCart, orderId |-> 0,
                paymentEventId |-> 0, unicityId |-> <<>>,
                totalAmountCents |-> 0, timeoutMs |-> 0, attempt |-> 0,
                delayMs |-> 0, wait |-> 0, result |-> NoResult]

NoHandler == [stage |-> "idle", hasReply |-> FALSE, hasAmount |-> FALSE,
              amount |-> 0, wait |-> 0]

DoneHandler == [NoHandler EXCEPT !.stage = "done"]

Init ==
  /\ carts = [c \in CartIds |-> NoCart]
  /\ orders = [c \in CartIds |-> NoOrder]
  /\ nextOrderId = 1
  /\ checkoutLocks = {}
  /\ isInitialized = TRUE
  /\ pendingPayments = <<>>
  /\ confirmedPayments = [c \in CartIds |-> NoConfirmed]
  /\ waits = [w \in 1..MaxWaits |-> NoWait]
  /\ nextReq = 1
  /\ handlers = [e \in 1..MaxEvents |-> NoHandler]
  /\ nextEvt = 1
  /\ savedTokens = {}
  /\ ck = [k \in Checkouts |-> IdleCheckout]
  /\ cf = [f \in Confirms |-> IdleConfirm]
  /\ now = 0
  /\ client = 1
  /\ connections = 1
  /\ subscriptions = 1
  /\ ini = [i \in Initializers |-> "idle"]

\* isConnected(): the model's relay connection stays up while the service
\* is initialized
isConnected == isInitialized

\* ---------------------------------------------------------------- cart tools
CreateCart(c) ==
  /\ ~carts[c].exists
  /\ carts' = createCart(carts, c)
  /\ UNCHANGED <<orders, nextOrderId, checkoutLocks, serviceVars, nextReq,
                 ck, cf, now, initVars>>

AddToCart(c) ==
  /\ carts[c].exists
  /\ carts[c].lines < MaxLines
  /\ carts' = addToCart(carts, c)
  /\ UNCHANGED <<orders, nextOrderId, checkoutLocks, serviceVars, nextReq,
                 ck, cf, now, initVars>>

RemoveFromCart(c) ==
  /\ carts[c].exists
  /\ carts' = removeFromCart(carts, c)
  /\ UNCHANGED <<orders, nextOrderId, checkoutLocks, serviceVars, nextReq,
                 ck, cf, now, initVars>>

\* ---------------------------------------------------------------- checkout_with_unicity
\* A lock check that never finds the cart locked
neverInProgress(locks, c) == FALSE

\* checkoutLocks.has(cartId)
isCheckoutInProgress(locks, c) == c \in locks

\* checkoutLocks.add(cartId)
acquireCheckoutLock(locks, c) == locks \cup {c}

\* A finally clause that leaves the set as it is
keepCheckoutLock(locks, c) == locks

\* finally { checkoutLocks.delete(cartId) }
releaseCheckoutLock(locks, c) == locks \ {c}

\* A guard that stops a paid order only
guardPaidOnly(order) ==
  IF order.status = "paid" THEN "already_paid" ELSE "proceed"

\* The existing-order guard: which rejection the order's status asks for
existingOrderGuard(order) ==
  IF order.status = "paid" THEN "already_paid"
  ELSE IF order.status = "awaiting_payment" THEN "already_pending"
  ELSE "proceed"

\* A return from inside the try block: the result, then the finally clause
CheckoutReturn(k, c, kind, eventId) ==
  /\ ck' = [ck EXCEPT ![k] = [IdleCheckout EXCEPT
               !.cartId = c, !.result = Result(kind, eventId, 0, "none")]]
  /\ checkoutLocks' = releaseCheckoutLock(acquireCheckoutLock(checkoutLocks, c), c)

\* Requests still to be issued by the calls in flight
ReqBudget ==
  nextReq + Cardinality({k \in Checkouts : ck[k].pc # "idle"}) <= MaxReq

\* A handler that locks the cart before it validates it
LockBeforeValidation(k, c, u) ==
  /\ ck[k].pc = "idle"
  /\ ~isCheckoutInProgress(checkoutLocks, c)
  /\ getCart(carts, c).exists
  /\ getCart(carts, c).lines = 0
  /\ CheckoutReturn(k, c, "cart_empty", 0)
  /\ carts' = lockCartForCheckout(carts, c)
  /\ UNCHANGED <<orders, nextOrderId, serviceVars, nextReq, cf, now, initVars>>

\* The call, up to the first await of the inventory loop
CheckoutCall(k, c, u) ==
  /\ ck[k].pc = "idle"
  /\ IF isCheckoutInProgress(checkoutLocks, c)
     THEN /\ ck' = [ck EXCEPT ![k] = [IdleCheckout EXCEPT
                       !.cartId = c,
                       !.result = Result("in_progress", 0, 0, "none")]]
          /\ UNCHANGED checkoutLocks
     ELSE /\ ReqBudget
          /\ IF ~getCart(carts, c).exists
             THEN CheckoutReturn(k, c, "cart_not_found", 0)
             ELSE IF getCart(carts, c).lines = 0
             THEN CheckoutReturn(k, c, "cart_empty", 0)
             ELSE /\ ck' = [ck EXCEPT ![k] = [IdleCheckout EXCEPT
                               !.pc = "validating", !.cartId = c,
                               !.unicityId = u, !.line = 1]]
                  /\ checkoutLocks' = acquireCheckoutLock(checkoutLocks, c)
  /\ UNCHANGED <<storeVars, serviceVars, nextReq, cf, now, initVars>>

\* After the inventory loop: the guards, then sendPaymentRequest up to the
\* first lookup of resolvePubkeyWithRetry
CheckoutGuards(k, c, errors) ==
  IF errors THEN CheckoutReturn(k, c, "inventory", 0)
  ELSE IF existingOrderGuard(getOrderByCartId(orders, c)) = "already_paid"
  THEN CheckoutReturn(k, c, "already_paid", 0)
  ELSE IF existingOrderGuard(getOrderByCartId(orders, c)) = "already_pending"
  THEN CheckoutReturn(k, c, "already_pending", orders[c].paymentEventId)
  ELSE IF ~isConnected THEN CheckoutReturn(k, c, "not_connected", 0)
  ELSE /\ ck' = [ck EXCEPT ![k].pc = "resolving", ![k].line = 0,
                           ![k].errors = FALSE,
                           ![k].amountTokens = carts[c].subtotalCents,
                           ![k].attempt = 1]
       /\ UNCHANGED checkoutLocks

\* getVariantById answers for the line the loop is at
CheckoutVariant(k, answer) ==
  LET c == ck[k].cartId
      errors == ck[k].errors \/ answer # "ok"
  IN /\ ck[k].pc = "validating"
     /\ IF answer = "throw" THEN CheckoutReturn(k, c, "error", 0)
        ELSE IF ck[k].line < carts[c].lines
        THEN /\ ck' = [ck EXCEPT ![k].line = @ + 1, ![k].errors = errors]
             /\ UNCHANGED checkoutLocks
        ELSE CheckoutGuards(k, c, errors)
     /\ UNCHANGED <<storeVars, serviceVars, nextReq, cf, now, initVars>>

\* queryPubkeyByNametag answers (resolvePubkeyWithRetry, lines 481-504);
\* sendPaymentRequest and resolvePubkeyWithRetry both strip the marker
CheckoutQuery(k, pubkey) ==
  LET c == ck[k].cartId IN
  /\ ck[k].pc = "resolving"
  /\ pubkey \in queryPubkeyByNametag(Normalize(Normalize(ck[k].unicityId)))
  /\ IF pubkey = LookupError
     THEN CheckoutReturn(k, c, "request_failed", 0)
     ELSE IF pubkey # NoPubkey
     THEN IF ~isInitialized
          THEN CheckoutReturn(k, c, "request_failed", 0)
          ELSE /\ ck' = [ck EXCEPT ![k].pc = "sending", ![k].attempt = 0,
                                   ![k].customerPubkey = pubkey]
               /\ UNCHANGED checkoutLocks
     ELSE IF ck[k].attempt < MaxRetries
          THEN /\ ck' = [ck EXCEPT ![k].pc = "backoff",
                                   ![k].delayMs = backoffDelayMs(ck[k].attempt)]
               /\ UNCHANGED checkoutLocks
          ELSE CheckoutReturn(k, c, "request_failed", 0)
  /\ UNCHANGED <<storeVars, serviceVars, nextReq, cf, now, initVars>>

\* A retry loop that does not count the lookups it makes
UncountedRetry(k) ==
  LET c == ck[k].cartId IN
  /\ ck[k].pc = "backoff"
  /\ IF ~isInitialized
     THEN CheckoutReturn(k, c, "request_failed", 0)
     ELSE /\ ck' = [ck EXCEPT ![k].pc = "resolving", ![k].delayMs = 0]
          /\ UNCHANGED checkoutLocks
  /\ UNCHANGED <<storeVars, serviceVars, nextReq, cf, now, initVars>>

\* The backoff delay is over: the loop's next lookup starts (and throws
\* when a shutdown has dropped the client)
CheckoutBackoff(k) ==
  LET c == ck[k].cartId IN
  /\ ck[k].pc = "backoff"
  /\ IF ~isInitialized
     THEN CheckoutReturn(k, c, "request_failed", 0)
     ELSE /\ ck' = [ck EXCEPT ![k].pc = "resolving", ![k].attempt = @ + 1,
                              ![k].delayMs = 0]
          /\ UNCHANGED checkoutLocks
  /\ UNCHANGED <<storeVars, serviceVars, nextReq, cf, now, initVars>>

\* A handler that has tracked the order and locked the cart before the
\* request fails
OrphanedOrder(k) ==
  /\ ck[k].pc = "sending"
  /\ CheckoutReturn(k, ck[k].cartId, "request_failed", 0)
  /\ orders' = markAwaitingPayment(
                 trackOrder(orders, ck[k].cartId, nextOrderId,
                            carts[ck[k].cartId].subtotalCents),
                 ck[k].cartId, 0, ck[k].unicityId)
  /\ nextOrderId' = nextOrderId + 1
  /\ carts' = lockCartForCheckout(carts, ck[k].cartId)
  /\ UNCHANGED <<serviceVars, nextReq, cf, now, initVars>>

\* client.sendPaymentRequest throws
CheckoutSendFails(k) ==
  /\ ck[k].pc = "sending"
  /\ CheckoutReturn(k, ck[k].cartId, "request_failed", 0)
  /\ UNCHANGED <<storeVars, serviceVars, nextReq, cf, now, initVars>>

\* Lines 1016-1023: the order is tracked with the cart's subtotal, marked
\* awaiting payment, and the cart locked
recordOrder(os, c, orderId, total, eventId, unicityId) ==
  markAwaitingPayment(trackOrder(os, c, orderId, total), c, eventId, unicityId)

\* client.sendPaymentRequest returns the request's event id; the handler
\* then records the order and locks the cart
CheckoutSent(k) ==
  LET c == ck[k].cartId
      eventId == nextReq
  IN /\ ck[k].pc = "sending"
     /\ nextReq <= MaxReq
     /\ nextReq' = nextReq + 1
     /\ IF ~isInitialized
        THEN /\ CheckoutReturn(k, c, "request_failed", 0)
             /\ UNCHANGED storeVars
        ELSE /\ orders' = recordOrder(orders, c, nextOrderId,
                                      carts[c].subtotalCents, eventId,
                                      ck[k].unicityId)
             /\ nextOrderId' = nextOrderId + 1
             /\ carts' = lockCartForCheckout(carts, c)
             /\ CheckoutReturn(k, c, "sent", eventId)
     /\ UNCHANGED <<serviceVars, cf, now, initVars>>

\* ---------------------------------------------------------------- awaiting callers
\* The confirm_payment calls whose awaited promise a step settles
Settled(f, ws, ws2) ==
  /\ cf[f].pc = "waiting"
  /\ ws[cf[f].wait].outcome = "pending"
  /\ ws2[cf[f].wait].outcome # "pending"

\* confirm_payment after `await waitForPayment`: markPaid on success; in the
\* catch block markPaymentTimeout and unlockCart, whatever the error was
ordersAfterWait(os, c, outcome) ==
  IF outcome = "confirmed" THEN markPaid(os, c) ELSE markPaymentTimeout(os, c)

\* A handler that unlocks the cart whatever the wait's outcome
unlockAlways(cs, c, outcome) == unlockCart(cs, c)

cartsAfterWait(cs, c, outcome) ==
  IF outcome = "confirmed" THEN cs ELSE unlockCart(cs, c)

resultAfterWait(eventId, outcome, transferEventId) ==
  IF outcome = "confirmed"
  THEN Result("confirmed", eventId, transferEventId, "none")
  ELSE Result("payment_timeout", eventId, 0, outcome)

\* A step that takes the promises from ws to ws2 runs the continuation of
\* every caller it settles
Continue(ws, ws2, transferEventId) ==
  LET done(c) == {f \in Confirms : Settled(f, ws, ws2) /\ cf[f].cartId = c}
      outcomeOf(c) == ws2[cf[CHOOSE f \in done(c) : TRUE].wait].outcome
  IN /\ cf' = [f \in Confirms |->
                 IF Settled(f, ws, ws2)
                 THEN [IdleConfirm EXCEPT
                         !.cartId = cf[f].cartId,
                         !.result = resultAfterWait(
                                      ws2[cf[f].wait].eventId,
                                      ws2[cf[f].wait].outcome,
                                      transferEventId)]
                 ELSE cf[f]]
     /\ orders' = [c \in CartIds |->
                 IF done(c) = {} THEN orders[c]
                 ELSE ordersAfterWait(orders, c, outcomeOf(c))[c]]
     /\ carts' = [c \in CartIds |->
                 IF done(c) = {} THEN carts[c]
                 ELSE cartsAfterWait(carts, c, outcomeOf(c))[c]]

\* ---------------------------------------------------------------- waitForPayment
\* The registration of lines 592-630: the entry, the map insert, the timer
newWait(c, eventId, unicityId, pubkey, amountTokens, timeout) ==
  [cartId |-> c, eventId |-> eventId, unicityId |-> Normalize(unicityId),
   customerPubkey |-> pubkey, amountTokens |-> amountTokens,
   timeoutMs |-> timeout,
   outcome |-> "pending", timer |-> "armed"]

\* The timer callback of lines 612-622
timeoutFires(pp, ws, w) ==
  IF pendingHas(pp, ws, ws[w].eventId)
  THEN [pending |-> pendingDelete(pp, ws, ws[w].eventId),
        waits |-> [rejectWait(ws, w, "timeout") EXCEPT ![w].timer = "off"]]
  ELSE [pending |-> pp, waits |-> [ws EXCEPT ![w].timer = "off"]]

TimerFires(w) ==
  LET after == timeoutFires(pendingPayments, waits, w) IN
  /\ waits[w].timer = "armed"
  /\ pendingPayments' = after.pending
  /\ waits' = collect(after.waits, handlers)
  /\ Continue(waits, after.waits, 0)
  /\ UNCHANGED <<nextOrderId, checkoutLocks, isInitialized, confirmedPayments,
                 nextReq, handlers, nextEvt, savedTokens, ck, now, initVars>>

\* ---------------------------------------------------------------- shutdown
\* shutdown(): every pending entry is rejected, the map cleared
rejectAll(pp, ws) ==
  [w \in DOMAIN ws |->
     IF \E i \in DOMAIN pp : pp[i] = w
     THEN rejectWait(ws, w, "shutdown")[w] ELSE ws[w]]

Shutdown ==
  LET rejected == IF client # 0 THEN rejectAll(pendingPayments, waits)
                  ELSE waits
  IN /\ isInitialized \/ client # 0
     /\ isInitialized' = FALSE
     /\ waits' = collect(rejected, handlers)
     /\ pendingPayments' = IF client # 0 THEN <<>> ELSE pendingPayments
     /\ Continue(waits, rejected, 0)
     /\ client' = 0
     /\ connections' = 0
     /\ subscriptions' = 0
     /\ UNCHANGED <<nextOrderId, checkoutLocks, confirmedPayments, nextReq, handlers, nextEvt, savedTokens, ck, now, ini>>

\* ---------------------------------------------------------------- handleIncomingTransfer
\* A mismatch branch that rejects but leaves the entry in the map
rejectAndKeep(pp, ws, cp, w) ==
  [pending |-> pp, waits |-> rejectWait(ws, w, "amount_mismatch"),
   confirmed |-> cp]

\* Lines 428-435: the amount differs; the entry under the expectation's
\* event id is deleted and the expectation rejected
rejectMismatch(pp, ws, cp, w) ==
  [pending |-> pendingDelete(pp, ws, ws[w].eventId),
   waits |-> rejectWait(ws, w, "amount_mismatch"),
   confirmed |-> cp]

\* Lines 438-452: the confirmed record is stored under the cart id, the
\* entry deleted, the promise resolved
confirmPayment(pp, ws, cp, w, transferEventId) ==
  [pending |-> pendingDelete(pp, ws, ws[w].eventId),
   waits |-> resolveWait(ws, w),
   confirmed |-> [cp EXCEPT ![ws[w].cartId] =
                    [cartId |-> ws[w].cartId,
                     requestEventId |-> ws[w].eventId,
                     transferEventId |-> transferEventId]]]

\* Lines 455-464: the catch block rejects only an event that carries a
\* reply-to reference
rejectUnparsed(pp, ws, cp, w, hasReply) ==
  IF hasReply
  THEN [pending |-> pendingDelete(pp, ws, ws[w].eventId),
        waits |-> rejectWait(ws, w, "payment_failed"),
        confirmed |-> cp]
  ELSE [pending |-> pp, waits |-> ws, confirmed |-> cp]

\* Lines 426-452
validateTransfer(pp, ws, cp, w, hasAmount, amount, transferEventId) ==
  IF amountMismatch(hasAmount, amount, ws[w].amountTokens)
  THEN rejectMismatch(pp, ws, cp, w)
  ELSE confirmPayment(pp, ws, cp, w, transferEventId)

\* The relay delivers an event: lines 369-410, up to the await of
\* parseTokenTransfer.  replyTo = 0 is an event without a reply-to tag.
Deliver(isTransfer, replyTo, sender, hasAmount, amount) ==
  LET e == nextEvt
      w == matchPending(pendingPayments, waits, replyTo, sender)
  IN /\ isInitialized
     /\ nextEvt <= MaxEvents
     /\ nextEvt' = nextEvt + 1
     /\ handlers' = [handlers EXCEPT ![e] =
          IF ~isTransfer \/ w = 0 THEN DoneHandler
          ELSE [stage |-> "parse", hasReply |-> replyTo # 0,
                hasAmount |-> hasAmount,
                amount |-> IF hasAmount THEN amount ELSE 0, wait |-> w]]
     /\ UNCHANGED <<storeVars, checkoutLocks, isInitialized, pendingPayments,
                    confirmedPayments, waits, nextReq, savedTokens,
                    ck, cf, now, initVars>>

\* A handler that checks the amount as soon as the transfer is parsed and
\* finalizes only a transfer of the expected amount
ValidateFirst(e) ==
  LET w == handlers[e].wait
      mismatch == amountMismatch(handlers[e].hasAmount, handlers[e].amount,
                                 waits[w].amountTokens)
      after == IF mismatch
               THEN rejectMismatch(pendingPayments, waits, confirmedPayments, w)
               ELSE [pending |-> pendingPayments, waits |-> waits,
                     confirmed |-> confirmedPayments]
  IN /\ handlers[e].stage = "parse"
     /\ handlers' = [handlers EXCEPT ![e] =
                       IF mismatch THEN DoneHandler
                       ELSE [@ EXCEPT !.stage = "finalize"]]
     /\ pendingPayments' = after.pending
     /\ waits' = collect(after.waits, handlers')
     /\ Continue(waits, after.waits, e)
     /\ UNCHANGED <<nextOrderId, checkoutLocks, isInitialized,
                    confirmedPayments, nextReq, nextEvt,
                    savedTokens, ck, now, initVars>>

\* parseTokenTransfer returns the token JSON; processTokenTransfer starts
HandleParsed(e) ==
  /\ handlers[e].stage = "parse"
  /\ handlers' = [handlers EXCEPT ![e].stage = "finalize"]
  /\ UNCHANGED <<storeVars, checkoutLocks, isInitialized, pendingPayments,
                 confirmedPayments, waits, nextReq, nextEvt,
                 savedTokens, ck, cf, now, initVars>>

\* parseTokenTransfer throws, returns nothing, or returns what JSON.parse
\* rejects: the catch block
HandleUnparsed(e) ==
  LET after == rejectUnparsed(pendingPayments, waits, confirmedPayments,
                              handlers[e].wait, handlers[e].hasReply)
  IN /\ handlers[e].stage = "parse"
     /\ handlers' = [handlers EXCEPT ![e] = DoneHandler]
     /\ pendingPayments' = after.pending
     /\ waits' = collect(after.waits, handlers')
     /\ Continue(waits, after.waits, e)
     /\ UNCHANGED <<nextOrderId, checkoutLocks, isInitialized,
                    confirmedPayments, nextReq, nextEvt,
                    savedTokens, ck, now, initVars>>

\* A handler that treats a failed finalization like a failed parse
stopOnFailure(pp, ws, cp, w, hasReply, hasAmount, amount, transferEventId, ok) ==
  IF ok
  THEN validateTransfer(pp, ws, cp, w, hasAmount, amount, transferEventId)
  ELSE rejectUnparsed(pp, ws, cp, w, hasReply)

\* Lines 419-424: a failed finalization (ok = FALSE) is logged and the
\* handler goes on to the amount check
afterFinalization(pp, ws, cp, w, hasReply, hasAmount, amount, transferEventId, ok) ==
  validateTransfer(pp, ws, cp, w, hasAmount, amount, transferEventId)

\* processTokenTransfer returns: finalized tells whether the token was
\* finalized and saved (finalizeTransfer needs the identity service)
HandleFinalized(e, finalized) ==
  LET after == afterFinalization(pendingPayments, waits, confirmedPayments,
                                 handlers[e].wait, handlers[e].hasReply,
                                 handlers[e].hasAmount, handlers[e].amount,
                                 e, finalized)
  IN /\ handlers[e].stage = "finalize"
     /\ finalized => isInitialized
     /\ savedTokens' = IF finalized THEN savedTokens \cup {e} ELSE savedTokens
     /\ handlers' = [handlers EXCEPT ![e] = DoneHandler]
     /\ pendingPayments' = after.pending
     /\ confirmedPayments' = after.confirmed
     /\ waits' = collect(after.waits, handlers')
     /\ Continue(waits, after.waits, e)
     /\ UNCHANGED <<nextOrderId, checkoutLocks, isInitialized, nextReq, nextEvt, ck, now, initVars>>

\* ---------------------------------------------------------------- confirm_payment
\* A handler that always waits
blockingWaitSeconds(waitSeconds) ==
  IF waitSeconds < 1 THEN 1
  ELSE IF waitSeconds > MaxWaitSeconds THEN MaxWaitSeconds
  ELSE waitSeconds

\* A handler that hands the caller's value on without the upper limit
unclampedWaitSeconds(waitSeconds) == IF waitSeconds < 0 THEN 0 ELSE waitSeconds

\* Math.min(Math.max(waitSeconds ?? 0, 0), 120)
effectiveWaitSeconds(waitSeconds) ==
  IF waitSeconds < 0 THEN 0
  ELSE IF waitSeconds > MaxWaitSeconds THEN MaxWaitSeconds
  ELSE waitSeconds

\* const timeoutMs = effectiveWaitSeconds * 1000 (line 1156)
timeoutMs(waitSeconds) == effectiveWaitSeconds(waitSeconds) * 1000

ConfirmReturn(f, c, kind, eventId, transferEventId, reason) ==
  cf' = [cf EXCEPT ![f] = [IdleConfirm EXCEPT
            !.cartId = c,
            !.result = Result(kind, eventId, transferEventId, reason)]]

\* The object a registration creates: the first slot nothing refers to
freeWait(ws) ==
  IF \E w \in DOMAIN ws : ws[w].outcome \in {"unused", "settled"}
  THEN CHOOSE w \in DOMAIN ws :
         /\ ws[w].outcome \in {"unused", "settled"}
         /\ \A v \in 1..(w - 1) : ws[v].outcome \notin {"unused", "settled"}
  ELSE 0

\* Slots are left for the registrations of the calls in flight
WaitBudget ==
  Cardinality({f \in Confirms : cf[f].pc \in {"resolving", "backoff"}})
    < Cardinality({w \in DOMAIN waits : waits[w].outcome \in {"unused", "settled"}})

\* waitForPayment, lines 592-630
Register(c, eventId, unicityId, pubkey, amountTokens, timeout) ==
  /\ freeWait(waits) # 0
  /\ waits' = [waits EXCEPT ![freeWait(waits)] =
                 newWait(c, eventId, unicityId, pubkey, amountTokens, timeout)]
  /\ pendingPayments' = pendingSet(pendingPayments, waits', eventId, freeWait(waits))

\* `await waitForPayment(...)` inside the handler's inner try
WaitForPayment(f, c, eventId, unicityId, pubkey, amountTokens, timeout) ==
  IF ~isInitialized
  THEN /\ ConfirmReturn(f, c, "payment_timeout", eventId, 0, "not_initialized")
       /\ orders' = markPaymentTimeout(orders, c)
       /\ carts' = unlockCart(carts, c)
       /\ UNCHANGED <<waits, pendingPayments>>
  ELSE IF getConfirmedPayment(confirmedPayments, c) # NoConfirmed
  THEN /\ ConfirmReturn(f, c, "confirmed",
                        getConfirmedPayment(confirmedPayments, c).requestEventId,
                        getConfirmedPayment(confirmedPayments, c).transferEventId,
                        "none")
       /\ orders' = markPaid(orders, c)
       /\ UNCHANGED <<carts, waits, pendingPayments>>
  ELSE /\ Register(c, eventId, unicityId, pubkey, amountTokens, timeout)
       /\ cf' = [cf EXCEPT ![f] = [IdleConfirm EXCEPT
                    !.pc = "waiting", !.cartId = c, !.wait = freeWait(waits),
                    !.orderId = IF cf[f].pc = "resolving" THEN cf[f].orderId
                                ELSE getOrderByCartId(orders, c).id]]
       /\ UNCHANGED <<carts, orders>>

\* The call, up to its first await or its return
ConfirmCall(f, c, waitSeconds) ==
  LET order == getOrderByCartId(orders, c)
      confirmedPayment == getConfirmedPayment(confirmedPayments, c)
      p == getPendingPaymentByCartId(pendingPayments, waits, c)
  IN /\ cf[f].pc = "idle"
     /\ IF order.status = "none"
        THEN /\ ConfirmReturn(f, c, "no_order", 0, 0, "none")
             /\ UNCHANGED <<carts, orders, waits, pendingPayments>>
        ELSE IF order.status = "paid"
        THEN /\ ConfirmReturn(f, c, "already_paid", 0, 0, "none")
             /\ UNCHANGED <<carts, orders, waits, pendingPayments>>
        ELSE IF order.status # "awaiting_payment"
        THEN /\ ConfirmReturn(f, c, "not_awaiting", 0, 0, order.status)
             /\ UNCHANGED <<carts, orders, waits, pendingPayments>>
        ELSE IF ~isConnected
        THEN /\ ConfirmReturn(f, c, "not_connected", 0, 0, "none")
             /\ UNCHANGED <<carts, orders, waits, pendingPayments>>
        ELSE IF confirmedPayment # NoConfirmed
        THEN /\ ConfirmReturn(f, c, "confirmed", confirmedPayment.requestEventId,
                              confirmedPayment.transferEventId, "none")
             /\ orders' = markPaid(orders, c)
             /\ UNCHANGED <<carts, waits, pendingPayments>>
        ELSE IF effectiveWaitSeconds(waitSeconds) = 0
        THEN /\ ConfirmReturn(f, c, "pending", order.paymentEventId, 0, "none")
             /\ UNCHANGED <<carts, orders, waits, pendingPayments>>
        ELSE IF p = 0 /\ order.paymentEventId # 0 /\ order.unicityId # <<>>
        THEN /\ WaitBudget
             /\ cf' = [cf EXCEPT ![f] = [IdleConfirm EXCEPT
                          !.pc = "resolving", !.cartId = c,
                          !.orderId = order.id,
                          !.paymentEventId = order.paymentEventId,
                          !.unicityId = order.unicityId,
                          !.totalAmountCents = order.totalAmountCents,
                          !.timeoutMs = timeoutMs(waitSeconds),
                          !.attempt = 1]]
             /\ UNCHANGED <<carts, orders, waits, pendingPayments>>
        ELSE IF p # 0
        THEN /\ WaitBudget
             /\ WaitForPayment(f, c, waits[p].eventId, waits[p].unicityId,
                               waits[p].customerPubkey, waits[p].amountTokens,
                               timeoutMs(waitSeconds))
        ELSE /\ ConfirmReturn(f, c, "no_pending", 0, 0, "none")
             /\ UNCHANGED <<carts, orders, waits, pendingPayments>>
     /\ UNCHANGED <<nextOrderId, checkoutLocks, isInitialized,
                    confirmedPayments, nextReq, handlers, nextEvt,
                    savedTokens, ck, now, initVars>>

\* queryPubkeyByNametag answers inside resolveUnicityId; a rejection
\* leaves resolvePubkeyWithRetry (no catch around line 483) and ends in the
\* handler's outer catch
ConfirmQuery(f, pubkey) ==
  /\ cf[f].pc = "resolving"
  /\ pubkey \in queryPubkeyByNametag(Normalize(cf[f].unicityId))
  /\ IF pubkey = LookupError
     THEN /\ ConfirmReturn(f, cf[f].cartId, "error", 0, 0, "none")
          /\ UNCHANGED <<carts, orders, waits, pendingPayments>>
     ELSE IF pubkey # NoPubkey
     THEN WaitForPayment(f, cf[f].cartId, cf[f].paymentEventId,
                         cf[f].unicityId, pubkey, cf[f].totalAmountCents,
                         cf[f].timeoutMs)
     ELSE /\ IF cf[f].attempt < MaxRetries
             THEN cf' = [cf EXCEPT ![f].pc = "backoff",
                                   ![f].delayMs = backoffDelayMs(cf[f].attempt)]
             ELSE ConfirmReturn(f, cf[f].cartId, "unresolved", 0, 0, "none")
          /\ UNCHANGED <<carts, orders, waits, pendingPayments>>
  /\ UNCHANGED <<nextOrderId, checkoutLocks, isInitialized,
                 confirmedPayments, nextReq, handlers, nextEvt,
                 savedTokens, ck, now, initVars>>

\* The backoff delay is over: the next lookup starts, and throws into the
\* handler's outer catch when a shutdown has dropped the client
ConfirmBackoff(f) ==
  /\ cf[f].pc = "backoff"
  /\ IF ~isInitialized
     THEN ConfirmReturn(f, cf[f].cartId, "error", 0, 0, "none")
     ELSE cf' = [cf EXCEPT ![f].pc = "resolving", ![f].attempt = @ + 1,
                           ![f].delayMs = 0]
  /\ UNCHANGED <<storeVars, checkoutLocks, serviceVars, nextReq, ck, now, initVars>>

\* ---------------------------------------------------------------- the system
\* What the relay can deliver: an event's kind, its reply-to tag (0 when it
\* has none), its sender and its amount tag
Events ==
  [isTransfer : BOOLEAN, replyTo : 0..MaxReq, sender : Pubkeys,
   hasAmount : BOOLEAN, amount : 1..(MaxLines + 1)]

\* The steps of the calls ks and fs on the carts cs, with aliases from us,
\* waitSeconds from ws and relay events from es
NextOf(cs, ks, fs, us, ws, es) ==
  \/ \E c \in cs \cap CartIds : CreateCart(c)
  \/ \E c \in cs \cap CartIds : AddToCart(c)
  \/ \E c \in cs \cap CartIds : RemoveFromCart(c)
  \/ \E k \in ks, c \in cs, u \in us : CheckoutCall(k, c, u)
  \/ \E k \in ks, answer \in {"ok", "missing", "not_for_sale",
                              "insufficient", "throw"} :
       CheckoutVariant(k, answer)
  \/ \E k \in ks, pubkey \in Pubkeys \cup {NoPubkey, LookupError} : CheckoutQuery(k, pubkey)
  \/ \E k \in ks : CheckoutBackoff(k)
  \/ \E k \in ks : CheckoutSendFails(k)
  \/ \E k \in ks : CheckoutSent(k)
  \/ \E f \in fs, c \in cs, waitSeconds \in ws : ConfirmCall(f, c, waitSeconds)
  \/ \E f \in fs, pubkey \in Pubkeys \cup {NoPubkey, LookupError} : ConfirmQuery(f, pubkey)
  \/ \E f \in fs : ConfirmBackoff(f)
  \/ \E w \in 1..MaxWaits : TimerFires(w)
  \/ \E ev \in es :
       Deliver(ev.isTransfer, ev.replyTo, ev.sender, ev.hasAmount, ev.amount)
  \/ \E e \in 1..MaxEvents : HandleParsed(e)
  \/ \E e \in 1..MaxEvents : HandleUnparsed(e)
  \/ \E e \in 1..MaxEvents, finalized \in BOOLEAN : HandleFinalized(e, finalized)
  \/ Shutdown

\* One call of each tool at a time, on one cart and on an id without a cart
Next ==
  NextOf({"c1", MissingCart}, {"k1"}, {"f1"}, {<<"@", "a">>}, WaitInputs,
         Events)

Spec == Init /\ [][Next]_vars

\* Transfers that answer a payment request of the customer "a"
Replies ==
  {ev \in Events : /\ ev.isTransfer /\ ev.replyTo # 0 /\ ev.hasAmount
                   /\ ev.sender = Binding(<<"a">>)}

\* Those that transfer the subtotal of a cart of one line
Payments == {ev \in Replies : ev.amount = recalculateCart(1)}

\* Two checkout calls at a time
NextCheckouts ==
  NextOf({"c1", MissingCart}, Checkouts, {"f1"}, {<<"@", "a">>}, {7},
         Payments)

SpecCheckouts == Init /\ [][NextCheckouts]_vars

\* Two confirm_payment calls at a time
NextConfirms ==
  NextOf({"c1"}, {"k1"}, Confirms, {<<"@", "a">>}, {7}, Payments)

SpecConfirms == Init /\ [][NextConfirms]_vars

\* confirm_payment called with wait values on both sides of the limits
NextWaits ==
  NextOf({"c1"}, {"k1"}, {"f1"}, {<<"@", "a">>}, ClampInputs, Payments)

SpecWaits == Init /\ [][NextWaits]_vars

\* A caller other than the tools calls waitForPayment on the service, as
\* the service's own tests do.  A call on a shut-down service throws and a
\* call for a cart with a confirmed result returns it: neither changes
\* anything, so only the registering call is a step.
\* config.unicity.paymentTimeoutSeconds (default 120) * 1000, the timeout
\* of a waitForPayment call that passes none (line 584)
DefaultTimeoutMs == 120000

WaitForPaymentCall(c, eventId, unicityId, pubkey, amountTokens) ==
  /\ client # 0
  /\ getConfirmedPayment(confirmedPayments, c) = NoConfirmed
  /\ Register(c, eventId, unicityId, pubkey, amountTokens, DefaultTimeoutMs)
  /\ UNCHANGED <<storeVars, checkoutLocks, isInitialized, confirmedPayments,
                 nextReq, handlers, nextEvt, savedTokens, ck, cf, now, initVars>>

\* The service alone: expectations for one cart of one line registered
\* directly, the relay, the timers and the shutdown
NextService ==
  \/ \E c \in {"c1"}, eventId \in 1..MaxReq, u \in UnicityIds :
       WaitForPaymentCall(c, eventId, u, Binding(Normalize(u)),
                          recalculateCart(1))
  \/ \E w \in 1..MaxWaits : TimerFires(w)
  \/ \E ev \in Events :
       Deliver(ev.isTransfer, ev.replyTo, ev.sender, ev.hasAmount, ev.amount)
  \/ \E e \in 1..MaxEvents : HandleParsed(e)
  \/ \E e \in 1..MaxEvents : HandleUnparsed(e)
  \/ \E e \in 1..MaxEvents, finalized \in BOOLEAN : HandleFinalized(e, finalized)
  \/ Shutdown

SpecService == Init /\ [][NextService]_vars

\* ---------------------------------------------------------------- the stores alone
\* The exported operations of the cart store and of the order tracker,
\* called directly as the unit tests and the maintenance code call them
OrderStatuses ==
  {"pending", "awaiting_payment", "paid", "cancelled", "payment_timeout"}

MaxAges == 0..2

frameOfCarts == <<orders, nextOrderId, checkoutLocks, serviceVars, nextReq, ck, cf, now, initVars>>

frameOfOrders == <<carts, checkoutLocks, serviceVars, nextReq, ck, cf, now, initVars>>

ClearCart(c) ==
  /\ carts[c].exists
  /\ carts' = clearCart(carts, c)
  /\ UNCHANGED frameOfCarts

LockCartForCheckout(c) ==
  /\ carts[c].exists
  /\ carts' = lockCartForCheckout(carts, c)
  /\ UNCHANGED frameOfCarts

UnlockCart(c) ==
  /\ carts[c].exists
  /\ carts' = unlockCart(carts, c)
  /\ UNCHANGED frameOfCarts

TrackOrder(c, total) ==
  /\ nextOrderId <= MaxReq
  /\ orders' = trackOrder(orders, c, nextOrderId, total)
  /\ nextOrderId' = nextOrderId + 1
  /\ UNCHANGED frameOfOrders

MarkAwaitingPayment(c, eventId, unicityId) ==
  /\ orders' = markAwaitingPayment(orders, c, eventId, unicityId)
  /\ UNCHANGED <<nextOrderId, frameOfOrders>>

MarkPaid(c) ==
  /\ orders' = markPaid(orders, c)
  /\ UNCHANGED <<nextOrderId, frameOfOrders>>

MarkCancelled(c) ==
  /\ orders' = markCancelled(orders, c)
  /\ UNCHANGED <<nextOrderId, frameOfOrders>>

MarkPaymentTimeout(c) ==
  /\ orders' = markPaymentTimeout(orders, c)
  /\ UNCHANGED <<nextOrderId, frameOfOrders>>

\* The administrative force-set
UpdateOrderStatus(c, status) ==
  /\ orders' = updateOrderStatus(orders, c, status)
  /\ UNCHANGED <<nextOrderId, frameOfOrders>>

PruneOldOrders(maxAgeMs) ==
  /\ orders' = pruneOldOrders(orders, maxAgeMs)
  /\ UNCHANGED <<nextOrderId, frameOfOrders>>

\* Time passes
Tick ==
  /\ now < MaxTime
  /\ now' = now + 1
  /\ UNCHANGED <<storeVars, checkoutLocks, serviceVars, nextReq, ck, cf, initVars>>

NextStores ==
  \/ \E c \in {"c1"} : CreateCart(c)
  \/ \E c \in {"c1"} : AddToCart(c)
  \/ \E c \in {"c1"} : RemoveFromCart(c)
  \/ \E c \in {"c1"} : ClearCart(c)
  \/ \E c \in {"c1"} : LockCartForCheckout(c)
  \/ \E c \in {"c1"} : UnlockCart(c)
  \/ \E c \in CartIds : TrackOrder(c, recalculateCart(1))
  \/ \E c \in CartIds : MarkAwaitingPayment(c, 1, <<"a">>)
  \/ \E c \in CartIds : MarkPaid(c)
  \/ \E c \in CartIds : MarkCancelled(c)
  \/ \E c \in CartIds : MarkPaymentTimeout(c)
  \/ \E c \in CartIds, status \in OrderStatuses : UpdateOrderStatus(c, status)
  \/ \E maxAgeMs \in MaxAges : PruneOldOrders(maxAgeMs)
  \/ Tick

SpecStores == Init /\ [][NextStores]_vars

\* ---------------------------------------------------------------- properties
\* A checkout call in flight on cart c
Active(k, c) == ck[k].pc # "idle" /\ ck[k].cartId = c

\* The step is a checkout_with_unicity call by k that returns at once
Returned(k) == ck[k].pc = "idle" /\ ck'[k] # ck[k] /\ ck'[k].pc = "idle"

\* C6: at most one checkout_with_unicity call per cart is past the lock
\* check at any time; a call made while another call for the same cart is
\* outstanding returns "in_progress" in the same step, and that step changes
\* no lock, cart, order, request or service state and no other call.
C6_OneCheckoutPerCart ==
  [][\A k \in Checkouts :
       /\ \A j \in Checkouts \ {k} :
            ck'[k].pc # "idle" /\ ck'[j].pc # "idle"
              => ck'[k].cartId # ck'[j].cartId
       /\ (ck[k].pc = "idle" /\ ck'[k] # ck[k]) =>
            IF \E j \in Checkouts \ {k} : Active(j, ck'[k].cartId)
            THEN /\ Returned(k)
                 /\ ck'[k].result = Result("in_progress", 0, 0, "none")
                 /\ \A j \in Checkouts \ {k} : ck'[j] = ck[j]
                 /\ UNCHANGED <<storeVars, checkoutLocks, serviceVars,
                                nextReq, cf>>
            ELSE ck'[k].result.kind # "in_progress"]_vars

\* A duplicate call was turned away while the first call is still running
C6_Witness ==
  \E k \in Checkouts, j \in Checkouts :
    /\ k # j
    /\ ck[j].pc \in {"resolving", "sending"}
    /\ ck[k].pc = "idle"
    /\ ck[k].cartId = ck[j].cartId
    /\ ck[k].result.kind = "in_progress"

\* C7: checkoutLocks holds a cart id exactly while one checkout call for
\* that cart is executing: it is added when the call passes the lock check,
\* removed on every return, and a call turned away as a duplicate leaves it.
C7_LockHeldWhileExecuting ==
  checkoutLocks = {c \in AllCartIds : \E k \in Checkouts : Active(k, c)}

\* One call has succeeded and released the lock; the other had been turned
\* away as a duplicate
C7_Witness ==
  \E k \in Checkouts, j \in Checkouts :
    /\ ck[k].result.kind = "sent"
    /\ ck[j].result.kind = "in_progress"
    /\ ck[j].cartId = ck[k].cartId
    /\ ck[k].cartId \notin checkoutLocks

\* C8: a checkout_with_unicity call that reaches its checks while the
\* cart's order is paid or awaiting_payment gets no further than the
\* existing-order guard: it is turned away (for awaiting_payment with the
\* order's request id), no request is issued, and the orders and the carts
\* (lock flag included) stay as they are.
C8_ExistingOrderGuard ==
  [][\A k \in Checkouts, c \in CartIds :
       ( /\ orders[c].status \in {"paid", "awaiting_payment"}
         /\ ck[k].pc \in {"idle", "validating"}
         /\ ck'[k] # ck[k]
         /\ ck'[k].cartId = c )
       => /\ ck'[k].pc \in {"idle", "validating"}
          /\ ck'[k].pc = "idle" =>
               ck'[k].result.kind \in
                 {"in_progress", "cart_empty", "inventory", "error",
                  IF orders[c].status = "paid" THEN "already_paid"
                  ELSE "already_pending"}
          /\ ck'[k].result.kind = "already_pending" =>
               ck'[k].result.eventId = orders[c].paymentEventId
          /\ UNCHANGED <<orders, carts, nextOrderId, nextReq>>]_vars

\* A second checkout was answered with the request id of the order that
\* awaits payment
C8_Witness ==
  \E k \in Checkouts :
    /\ ck[k].result.kind = "already_pending"
    /\ orders[ck[k].cartId].status = "awaiting_payment"
    /\ ck[k].result.eventId = orders[ck[k].cartId].paymentEventId
    /\ carts[ck[k].cartId].lockedForCheckout

\* The step settles the wait of the confirm_payment call f with `reason`
TimesOut(f, reason) ==
  /\ cf[f].pc = "waiting"
  /\ cf'[f].pc = "idle"
  /\ cf'[f].result.kind = "payment_timeout"
  /\ cf'[f].result.reason = reason

\* C9: when the wait of a confirm_payment call times out, the cart's order
\* becomes payment_timeout and the cart is unlocked; a checkout that then
\* reaches the existing-order guard is not turned away by it, and when its
\* payment request is sent the request id is new, the order awaits payment
\* under that id and the cart is locked.
C9_RetryAfterTimeout ==
  [][/\ \A f \in Confirms :
          TimesOut(f, "timeout") =>
            /\ orders'[cf[f].cartId].status = "payment_timeout"
            /\ ~carts'[cf[f].cartId].lockedForCheckout
     /\ \A k \in Checkouts :
          /\ ( /\ ck[k].pc = "validating"
               /\ orders[ck[k].cartId].status = "payment_timeout"
               /\ ck'[k].pc = "idle" )
             => ck'[k].result.kind \in {"inventory", "error", "not_connected"}
          /\ (ck[k].pc = "sending" /\ ck'[k].result.kind = "sent") =>
               /\ ck'[k].result.eventId = nextReq
               /\ nextReq' = nextReq + 1
               /\ orders[ck[k].cartId].paymentEventId < nextReq
               /\ orders'[ck[k].cartId].status = "awaiting_payment"
               /\ orders'[ck[k].cartId].paymentEventId = nextReq
               /\ carts'[ck[k].cartId].lockedForCheckout]_vars

\* The first request timed out in confirm_payment and the second checkout
\* of the cart went through
C9_Witness ==
  \E f \in Confirms, k \in Checkouts :
    /\ cf[f].result.kind = "payment_timeout"
    /\ cf[f].result.reason = "timeout"
    /\ ck[k].cartId = cf[f].cartId
    /\ ck[k].result.kind = "sent"
    /\ ck[k].result.eventId > cf[f].result.eventId
    /\ orders[ck[k].cartId].status = "awaiting_payment"
    /\ orders[ck[k].cartId].paymentEventId = ck[k].result.eventId
    /\ carts[ck[k].cartId].lockedForCheckout

\* The step is the amount check of handler e, and the amount differs
Mismatch(e) ==
  /\ handlers[e].stage = "finalize"
  /\ handlers'[e].stage = "done"
  /\ amountMismatch(handlers[e].hasAmount, handlers[e].amount,
                    waits[handlers[e].wait].amountTokens)

\* The confirm_payment calls that wait on the expectation handler e holds
WaitersOf(e) ==
  {f \in Confirms : cf[f].pc = "waiting" /\ cf[f].wait = handlers[e].wait}

\* C5 as stated: every mismatching event removes the expectation, rejects
\* its waiter with the amount-mismatch failure and records no confirmed
\* result.
C5_MismatchRejectsWaiter ==
  [][\A e \in 1..MaxEvents :
       Mismatch(e) =>
         /\ ~pendingHas(pendingPayments', waits,
                        waits[handlers[e].wait].eventId)
         /\ confirmedPayments' = confirmedPayments
         /\ \E f \in Confirms :
              /\ cf[f].wait = handlers[e].wait
              /\ TimesOut(f, "amount_mismatch")]_vars

\* C5: a mismatching event removes the entry under the expectation's request
\* id and records no confirmed result; a waiter that is still waiting is
\* rejected with the amount-mismatch failure, one that has already been
\* settled (by its timeout, a shutdown or another event) keeps its outcome.
C5_MismatchRejectsPending ==
  [][\A e \in 1..MaxEvents :
       Mismatch(e) =>
         /\ ~pendingHas(pendingPayments', waits,
                        waits[handlers[e].wait].eventId)
         /\ confirmedPayments' = confirmedPayments
         /\ \A f \in WaitersOf(e) : TimesOut(f, "amount_mismatch")
         /\ \A f \in Confirms \ WaitersOf(e) : cf'[f] = cf[f]]_vars

\* A waiter was rejected for the amount, its expectation is gone and the
\* cart has no confirmed result
C5_Witness ==
  \E f \in Confirms :
    /\ cf[f].result.kind = "payment_timeout"
    /\ cf[f].result.reason = "amount_mismatch"
    /\ ~pendingHas(pendingPayments, waits, cf[f].result.eventId)
    /\ confirmedPayments[cf[f].cartId] = NoConfirmed

\* C1: no confirm_payment call is told that its wait timed out while a
\* confirmed result for the same cart and the same request is recorded in
\* confirmedPayments.
C1_OneTerminalOutcome ==
  \A f \in Confirms :
    ( /\ cf[f].result.kind = "payment_timeout"
      /\ cf[f].result.reason = "timeout" )
    => getConfirmedPayment(confirmedPayments, cf[f].cartId).requestEventId
         # cf[f].result.eventId

\* C2: when checkout_with_unicity returns the request id, an expectation
\* for that id is in pendingPayments.
C2_ExpectationAfterCheckout ==
  [][\A k \in Checkouts :
       (ck[k].pc = "sending" /\ ck'[k].result.kind = "sent")
         => pendingHas(pendingPayments', waits', ck'[k].result.eventId)]_vars

\* C3: a confirm_payment call that is still waiting has its own timer
\* armed: once the timer has fired the call has been settled.
C3_SettledByOwnTimeout ==
  \A f \in Confirms :
    cf[f].pc = "waiting" => waits[cf[f].wait].timer = "armed"

\* The step is the amount check of handler e, and it records a confirmed
\* result
RecordsConfirmed(e) ==
  /\ handlers[e].stage = "finalize"
  /\ handlers'[e].stage = "done"
  /\ confirmedPayments' # confirmedPayments

\* C4: an event records a confirmed result only when it carries an amount
\* and the amount equals the expectation's.
C4_ConfirmsExactAmountOnly ==
  [][\A e \in 1..MaxEvents :
       RecordsConfirmed(e) =>
         /\ handlers[e].hasAmount
         /\ handlers[e].amount = waits[handlers[e].wait].amountTokens]_vars

\* C10: while the service holds the confirmed result of the cart's order,
\* every confirm_payment call returns that result (cart id, request id,
\* settlement reference) and registers nothing.
C10_RepeatedConfirmIdentical ==
  [][\A f \in Confirms, c \in CartIds :
       ( /\ isConnected
         /\ orders[c].status \in {"awaiting_payment", "paid"}
         /\ confirmedPayments[c].requestEventId = orders[c].paymentEventId
         /\ cf[f].pc = "idle"
         /\ cf'[f] # cf[f]
         /\ cf'[f].cartId = c )
       => /\ cf'[f].pc = "idle"
          /\ cf'[f].result = Result("confirmed",
                                    confirmedPayments[c].requestEventId,
                                    confirmedPayments[c].transferEventId,
                                    "none")
          /\ UNCHANGED <<pendingPayments, waits>>]_vars

\* The entries pendingPayments holds for cart c
EntriesOf(c) ==
  {i \in DOMAIN pendingPayments : waits[pendingPayments[i]].cartId = c}

\* C11: pendingPayments holds at most one expectation per cart id.
C11_OneExpectationPerCart ==
  \A c \in CartIds : Cardinality(EntriesOf(c)) <= 1

\* No entry of pendingPayments has the event's reply-to reference as its
\* request id or the event's sender as its customer
Unmatched(ev) ==
  \A i \in DOMAIN pendingPayments :
    /\ waits[pendingPayments[i]].eventId # ev.replyTo
    /\ waits[pendingPayments[i]].customerPubkey # ev.sender

\* C12: the delivery of an event that is no token transfer, or that matches
\* no entry by reply-to reference or by sender, ends the handler at once and
\* leaves pendingPayments, confirmedPayments, every promise, every call, the
\* orders, the carts and the saved tokens as they are.
C12_UnmatchedChangesNothing ==
  [][\A ev \in Events :
       ( /\ Deliver(ev.isTransfer, ev.replyTo, ev.sender, ev.hasAmount,
                    ev.amount)
         /\ (~ev.isTransfer \/ Unmatched(ev)) )
       => /\ handlers'[nextEvt] = DoneHandler
          /\ UNCHANGED <<pendingPayments, confirmedPayments, waits, cf, ck,
                         storeVars, savedTokens, isInitialized>>]_vars

\* Every event the relay delivered was dropped while a call waits on an
\* expectation that is still registered
C12_Witness ==
  /\ nextEvt > MaxEvents
  /\ \A e \in 1..MaxEvents : handlers[e] = DoneHandler
  /\ savedTokens = {}
  /\ \A c \in CartIds : confirmedPayments[c] = NoConfirmed
  /\ \E f \in Confirms :
       /\ cf[f].pc = "waiting"
       /\ pendingGet(pendingPayments, waits, waits[cf[f].wait].eventId)
            = cf[f].wait

\* The positions of the entries whose request id is the event's reply-to
\* reference, and of those whose customer is the event's sender
ByReply(ev) ==
  {i \in DOMAIN pendingPayments :
     ev.replyTo # 0 /\ waits[pendingPayments[i]].eventId = ev.replyTo}

BySender(ev) ==
  {i \in DOMAIN pendingPayments :
     waits[pendingPayments[i]].customerPubkey = ev.sender}

\* C13: a delivered token transfer is matched to the entry whose request id
\* is its reply-to reference when there is one, whatever the senders are;
\* otherwise to the oldest entry whose customer is its sender; otherwise it
\* is dropped.
C13_MatchingOrder ==
  [][\A ev \in Events :
       ( /\ Deliver(ev.isTransfer, ev.replyTo, ev.sender, ev.hasAmount,
                    ev.amount)
         /\ ev.isTransfer )
       => IF ByReply(ev) # {}
          THEN /\ handlers'[nextEvt].stage = "parse"
               /\ \E i \in ByReply(ev) :
                    handlers'[nextEvt].wait = pendingPayments[i]
          ELSE IF BySender(ev) # {}
          THEN /\ handlers'[nextEvt].stage = "parse"
               /\ \E i \in BySender(ev) :
                    /\ handlers'[nextEvt].wait = pendingPayments[i]
                    /\ \A j \in BySender(ev) : i <= j
          ELSE handlers'[nextEvt] = DoneHandler]_vars

\* Two expectations of one customer are registered and an event is held by
\* a handler for the newer one: its reply-to reference decided, not the
\* sender
C13_Witness ==
  \E e \in 1..MaxEvents :
    /\ Len(pendingPayments) = 2
    /\ waits[pendingPayments[1]].customerPubkey
         = waits[pendingPayments[2]].customerPubkey
    /\ handlers[e].stage = "parse"
    /\ handlers[e].hasReply
    /\ handlers[e].wait = pendingPayments[2]

\* The step is the return of processTokenTransfer to handler e with a
\* failure, for an event that carries the expected amount
FinalizationFails(e) ==
  /\ handlers[e].stage = "finalize"
  /\ handlers'[e].stage = "done"
  /\ e \notin savedTokens'
  /\ handlers[e].hasAmount
  /\ handlers[e].amount = waits[handlers[e].wait].amountTokens

\* The confirmed result handler e records for the expectation it holds
ConfirmedBy(e) ==
  [cartId |-> waits[handlers[e].wait].cartId,
   requestEventId |-> waits[handlers[e].wait].eventId,
   transferEventId |-> e]

C15_ShutdownRejectsAll ==
  [][(isInitialized /\ ~isInitialized') =>
       /\ pendingPayments' = <<>>
       /\ \A f \in Confirms :
            cf[f].pc = "waiting" => TimesOut(f, "shutdown")]_vars

\* C16: a step of a checkout call that does not return the id of a request
\* issued in that very step leaves the orders, the carts and the order ids
\* alone; so a failed resolution or issuance creates or replaces no order
\* and locks no cart, and an order that awaits payment carries the id of a
\* request that was issued.
C16_RequestBeforeOrder ==
  [][/\ \A k \in Checkouts :
          ck'[k] # ck[k] =>
            IF ck[k].pc = "sending" /\ ck'[k].result.kind = "sent"
            THEN /\ nextReq' = nextReq + 1
                 /\ orders'[ck[k].cartId].paymentEventId = nextReq
            ELSE /\ UNCHANGED <<orders, carts, nextOrderId>>
                 /\ ck[k].pc \in {"resolving", "backoff", "sending"}
                      => ck'[k].pc \in {"resolving", "backoff", "sending"}
                         \/ ck'[k].result.kind = "request_failed"
     /\ \A c \in CartIds :
          orders'[c].status = "awaiting_payment"
            => orders'[c].paymentEventId \in 1..(nextReq' - 1)]_vars

\* The request failed after the alias had been looked up: the cart has no
\* order and is not locked
C16_Witness ==
  \E k \in Checkouts :
    /\ ck[k].result.kind = "request_failed"
    /\ ck[k].cartId \in CartIds
    /\ orders[ck[k].cartId].status = "none"
    /\ ~carts[ck[k].cartId].lockedForCheckout
    /\ nextOrderId = 1

\* C17: a lookup that finds nothing is followed by a delay of 1 s when it
\* was the first and of 2 s when it was the second; when it was the third
\* the call returns not-found without a delay; a delay is followed by the
\* next lookup, and no call makes a fourth.
C17_ThreeLookups ==
  [][/\ \A f \in Confirms :
       /\ cf'[f].attempt <= 3
       /\ (cf[f].pc = "resolving" /\ cf'[f].pc = "backoff") =>
            /\ cf[f].attempt \in {1, 2}
            /\ cf'[f].attempt = cf[f].attempt
            /\ cf'[f].delayMs = IF cf[f].attempt = 1 THEN 1000 ELSE 2000
       /\ (cf[f].pc = "resolving" /\ cf[f].attempt = 3 /\ cf'[f] # cf[f]) =>
            cf'[f].pc # "backoff"
       /\ (cf[f].pc # "idle" /\ cf'[f].result.kind = "unresolved") =>
            /\ cf[f].pc = "resolving"
            /\ cf[f].attempt = 3
       /\ (cf[f].pc = "backoff" /\ cf'[f].pc = "resolving") =>
            cf'[f].attempt = cf[f].attempt + 1
     /\ \A k \in Checkouts :
          /\ ck'[k].attempt <= 3
          /\ (ck[k].pc = "resolving" /\ ck'[k].pc = "backoff") =>
               /\ ck[k].attempt \in {1, 2}
               /\ ck'[k].delayMs = IF ck[k].attempt = 1 THEN 1000 ELSE 2000
          /\ (ck[k].pc = "backoff" /\ ck'[k].pc = "resolving") =>
               ck'[k].attempt = ck[k].attempt + 1]_vars

\* A call has waited 2 s after its second lookup
C17_Witness ==
  \E f \in Confirms :
    cf[f].pc = "backoff" /\ cf[f].attempt = 2 /\ cf[f].delayMs = 2000

\* C18: on an initialized service a lookup attempt that fails, whether it
\* finds nothing, times out or raises an error, is followed by a delay and
\* the next attempt, or is the third and the call returns not-found: the
\* call never ends with an error.
C18_LookupFailuresCounted ==
  [][\A f \in Confirms :
       (isInitialized /\ cf[f].pc = "resolving" /\ cf'[f] # cf[f]) =>
         /\ cf'[f].result.kind # "error"
         /\ cf'[f].result.kind = "unresolved" => cf[f].attempt = 3]_vars

\* C19: a confirm_payment call with a negative wait value takes the step the
\* call with 0 takes, and returns at once; a call with a value above 120
\* takes the step the call with 120 takes; and the timeout a call carries
\* into its registration, and the timeout of the wait it registers, is
\* min(max(w, 0), 120) * 1000 ms.
C19_WaitClamped ==
  [][\A f \in Confirms, c \in CartIds, w \in ClampInputs :
       /\ ConfirmCall(f, c, w) =>
            /\ w < 0 => (ConfirmCall(f, c, 0) /\ cf'[f].pc = "idle")
            /\ w > 120 => ConfirmCall(f, c, 120)
            /\ cf'[f].pc = "resolving" =>
                 cf'[f].timeoutMs =
                   (IF w < 0 THEN 0 ELSE IF w > 120 THEN 120 ELSE w) * 1000
            /\ cf'[f].pc = "waiting" =>
                 waits'[cf'[f].wait].timeoutMs =
                   (IF w < 0 THEN 0 ELSE IF w > 120 THEN 120 ELSE w) * 1000
       /\ (cf[f].pc = "resolving" /\ cf'[f].pc = "waiting") =>
            waits'[cf'[f].wait].timeoutMs = cf[f].timeoutMs]_vars

\* A call that asked for more than 120 s waits with a timeout of 120 s
C19_Witness ==
  \E f \in Confirms :
    /\ cf[f].pc = "waiting"
    /\ waits[cf[f].wait].timeoutMs = 120000

\* A confirm_payment call that does not wait, for a cart whose order awaits
\* payment and has no confirmed result
NonBlockingCall(f, c, w) ==
  /\ ConfirmCall(f, c, w)
  /\ w <= 0
  /\ getOrderByCartId(orders, c).status = "awaiting_payment"
  /\ getConfirmedPayment(confirmedPayments, c) = NoConfirmed

\* The call returns 'still pending' at once and changes nothing else
ReturnsPendingOnly(f) ==
  /\ cf'[f].pc = "idle"
  /\ cf'[f].result.kind = "pending"
  /\ UNCHANGED <<storeVars, checkoutLocks, serviceVars, nextReq, ck>>

\* C20 as stated: every such call returns 'still pending' and registers
\* nothing, resolves nothing and leaves orders and carts alone.
C20_NonBlockingPending ==
  [][\A f \in Confirms, c \in CartIds, w \in WaitInputs :
       NonBlockingCall(f, c, w) => ReturnsPendingOnly(f)]_vars

\* C20: while the payment service is connected, a confirm_payment call with
\* effective wait 0 on an order awaiting payment without a confirmed result
\* returns 'still pending' at once, registers no expectation, starts no
\* alias resolution and leaves the order and the cart unchanged; on a
\* service that is not connected it returns the not-connected error, with
\* the same absence of effects.
C20_NonBlockingWhenConnected ==
  [][\A f \in Confirms, c \in CartIds, w \in WaitInputs :
       NonBlockingCall(f, c, w) =>
         /\ isConnected => ReturnsPendingOnly(f)
         /\ cf'[f].pc = "idle"
         /\ cf'[f].result.kind \in {"pending", "not_connected"}
         /\ UNCHANGED <<storeVars, checkoutLocks, serviceVars, nextReq, ck>>]_vars

\* A call has returned 'still pending' for an order that awaits payment
C20_Witness ==
  \E f \in Confirms :
    /\ cf[f].result.kind = "pending"
    /\ getOrderByCartId(orders, cf[f].cartId).status = "awaiting_payment"
    /\ isConnected

\* C21: an order that is paid stays paid, keeps its identity, and its cart
\* keeps its lock flag, whatever step a checkout_with_unicity or
\* confirm_payment call, a timer, the relay or the shutdown takes.
C21_PaidIsTerminal ==
  [][\A c \in CartIds :
       orders[c].status = "paid" =>
         /\ orders'[c].status = "paid"
         /\ orders'[c].id = orders[c].id
         /\ carts'[c].lockedForCheckout = carts[c].lockedForCheckout]_vars

\* C22: markAwaitingPayment changes the status of a pending order only,
\* and markPaid, markCancelled and markPaymentTimeout that of an order
\* awaiting payment only.
C22_GuardedTransitions ==
  [][\A c \in CartIds :
       /\ (MarkAwaitingPayment(c, 1, <<"a">>) /\ orders[c].status # "pending")
            => orders'[c].status = orders[c].status
       /\ ((MarkPaid(c) \/ MarkCancelled(c) \/ MarkPaymentTimeout(c))
             /\ orders[c].status # "awaiting_payment")
            => orders'[c].status = orders[c].status]_vars

\* C26: pruneOldOrders(maxAge) removes the orders that are paid, cancelled
\* or timed out and were last updated more than maxAge ago, keeps every
\* other order as it is, and returns the number it removed.
C26_PrunesOldTerminalOrders ==
  [][\A maxAge \in MaxAges :
       PruneOldOrders(maxAge) =>
         /\ \A c \in CartIds :
              orders'[c] =
                IF /\ orders[c].status \in {"paid", "cancelled", "payment_timeout"}
                   /\ now - orders[c].updatedAt > maxAge
                THEN NoOrder ELSE orders[c]
         /\ prunedCount(orders, maxAge) =
              Cardinality({c \in CartIds : /\ orders[c].status # "none"
                                           /\ orders'[c].status = "none"})]_vars

\* One order has been pruned, and an older order that is not terminal,
\* updated after its creation, has been kept
C26_Witness ==
  /\ nextOrderId = 3
  /\ orders["c1"].status = "none"
  /\ orders["c2"].status \in {"pending", "awaiting_payment"}
  /\ orders["c2"].createdAt < orders["c2"].updatedAt
  /\ now - orders["c2"].updatedAt > 1

\* C27: while a cart's lock flag is set no step changes its lines or its
\* subtotal.
C27_LockedCartUnchanged ==
  [][\A c \in CartIds :
       carts[c].lockedForCheckout =>
         /\ carts'[c].lines = carts[c].lines
         /\ carts'[c].subtotalCents = carts[c].subtotalCents]_vars

\* C28: an order that is paid has its paid-at time, and an order gets a
\* paid-at time only in a step that sets it to paid; a new order has none.
C28_PaidAtIffPaid ==
  [][\A c \in CartIds :
       /\ orders'[c].status = "paid" => orders'[c].paidAt
       /\ (orders'[c].paidAt /\ ~orders[c].paidAt) => orders'[c].status = "paid"
       /\ (orders'[c].id # orders[c].id) => ~orders'[c].paidAt]_vars

\* One order is paid, and another that was paid and then force-set to
\* another status keeps its paid-at time
C28_Witness ==
  /\ orders["c1"].status = "paid" /\ orders["c1"].paidAt
  /\ orders["c2"].status = "cancelled" /\ orders["c2"].paidAt

\* C23: an order becomes payment_timeout, and a locked cart is unlocked,
\* only in a step in which the wait of a confirm_payment call for that cart
\* runs into its deadline.
C23_TimeoutOnlyByDeadline ==
  [][\A c \in CartIds :
       (\/ orders'[c].status = "payment_timeout" /\ orders[c].status # "payment_timeout"
        \/ carts[c].lockedForCheckout /\ ~carts'[c].lockedForCheckout)
         => \E f \in Confirms : TimesOut(f, "timeout") /\ cf[f].cartId = c]_vars

\* The results of a checkout_with_unicity call that failed validation
ValidationFailures ==
  {"cart_not_found", "cart_empty", "inventory", "not_connected"}

\* C25: every step of a checkout_with_unicity call that is validating, and
\* the step in which it returns a validation failure, issues no payment
\* request, changes no order and no cart, and leaves the service and every
\* other call alone; the failed call does not keep the checkout lock.
C25_FailedValidationNoEffects ==
  [][\A k \in Checkouts :
       ( /\ ck'[k] # ck[k]
         /\ ck[k].pc \in {"idle", "validating"}
         /\ \/ ck'[k].pc = "validating"
            \/ ck'[k].pc = "idle" /\ ck'[k].result.kind \in ValidationFailures )
       => /\ UNCHANGED <<carts, orders, nextOrderId, nextReq, serviceVars, cf>>
          /\ \A j \in Checkouts \ {k} : ck'[j] = ck[j]
          /\ ck'[k].pc = "idle" => checkoutLocks' = checkoutLocks \ {ck'[k].cartId}]_vars

\* A call has returned an inventory problem for a cart that has a line
C25_Witness ==
  \E k \in Checkouts :
    /\ ck[k].result.kind = "inventory"
    /\ carts[ck[k].cartId].lines > 0
    /\ ~carts[ck[k].cartId].lockedForCheckout

\* The expectation a re-registration for cart c is to create
FreshExpectation(w, c) ==
  /\ w.cartId = c
  /\ w.eventId = orders[c].paymentEventId
  /\ w.unicityId = Normalize(orders[c].unicityId)
  /\ w.amountTokens = orders[c].totalAmountCents
  /\ w.customerPubkey = Binding(Normalize(orders[c].unicityId))
  /\ w.outcome = "pending"

\* C24: a confirm_payment call that re-resolves the alias registers, when
\* the lookup answers, an expectation with the order's request id, alias
\* and total and the resolved address, and waits on it; when the alias is
\* not resolved it returns an error and changes no order, cart or entry.
C24_ReRegistersFromOrder ==
  [][\A f \in Confirms :
       /\ (cf[f].pc = "resolving" /\ cf'[f].pc = "waiting") =>
            /\ FreshExpectation(waits'[cf'[f].wait], cf[f].cartId)
            /\ pendingGet(pendingPayments', waits',
                          orders[cf[f].cartId].paymentEventId) = cf'[f].wait
            /\ UNCHANGED <<orders, carts>>
       /\ (cf[f].pc = "resolving" /\ cf'[f].result.kind \in {"unresolved", "error"}) =>
            UNCHANGED <<orders, carts, pendingPayments, waits>>]_vars

\* C29: in a step that makes a cart's order paid, the confirmed result
\* kept for the cart is the one of the order's own payment request.
C29_PaidByOwnRequest ==
  [][\A c \in CartIds :
       (orders'[c].status = "paid" /\ orders[c].status # "paid") =>
         /\ confirmedPayments'[c] # NoConfirmed
         /\ confirmedPayments'[c].requestEventId = orders[c].paymentEventId]_vars

\* C30: the total of the order a checkout_with_unicity call creates is the
\* amount of the payment request the call issued.
C30_OrderTotalIsRequestAmount ==
  [][\A k \in Checkouts :
       (ck[k].pc = "sending" /\ ck'[k].result.kind = "sent") =>
         orders'[ck[k].cartId].totalAmountCents = ck[k].amountTokens]_vars

\* C31: a confirmed result recorded for a cart is never replaced, and the
\* waiter a step resolves gets the settlement reference the map then holds.
C31_ConfirmedNeverReplaced ==
  [][/\ \A c \in CartIds :
          confirmedPayments[c] # NoConfirmed =>
            confirmedPayments'[c] = confirmedPayments[c]
     /\ \A f \in Confirms :
          (cf[f].pc = "waiting" /\ cf'[f].result.kind = "confirmed") =>
            cf'[f].result.transferEventId =
              confirmedPayments'[cf[f].cartId].transferEventId]_vars

\* C32: when the wait of a confirm_payment call fails after the cart's
\* order has been replaced by a new one, the step changes neither that
\* order nor the cart's lock flag.
C32_TimeoutOnOwnOrderOnly ==
  [][\A f \in Confirms :
       ( /\ cf[f].pc \in {"resolving", "waiting"}
         /\ cf'[f].result.kind = "payment_timeout"
         /\ orders[cf[f].cartId].id # cf[f].orderId )
       => /\ orders'[cf[f].cartId] = orders[cf[f].cartId]
          /\ carts'[cf[f].cartId].lockedForCheckout
               = carts[cf[f].cartId].lockedForCheckout]_vars

\* The timer of the wait w fires while w is the registered expectation of
\* its request id
FiresRegistered(w) ==
  /\ TimerFires(w)
  /\ pendingGet(pendingPayments, waits, waits[w].eventId) = w

\* A step leaves an entry under the request id of every expectation it
\* does not settle
StaysFindable ==
  \A i \in DOMAIN pendingPayments :
    waits'[pendingPayments[i]].outcome = "pending" =>
      pendingHas(pendingPayments', waits', waits[pendingPayments[i]].eventId)

\* The timeout removes the expectation and rejects its waiter with the
\* request id
TimeoutRemoves ==
  \A w \in 1..MaxWaits :
    FiresRegistered(w) =>
      /\ ~pendingHas(pendingPayments', waits', waits[w].eventId)
      /\ \A f \in Confirms :
           (cf[f].pc = "waiting" /\ cf[f].wait = w) =>
             /\ cf'[f].result.kind = "payment_timeout"
             /\ cf'[f].result.reason = "timeout"
             /\ cf'[f].result.eventId = waits[w].eventId

\* The event answers a request whose wait has timed out and which has no
\* registered expectation
LateReply(ev) ==
  /\ Deliver(ev.isTransfer, ev.replyTo, ev.sender, ev.hasAmount, ev.amount)
  /\ ev.replyTo # 0
  /\ ~pendingHas(pendingPayments, waits, ev.replyTo)
  /\ \E f \in Confirms : /\ cf[f].result.kind = "payment_timeout"
                         /\ cf[f].result.reason = "timeout"
                         /\ cf[f].result.eventId = ev.replyTo

\* The delivery ends the handler at once and changes nothing else
Dropped ==
  /\ handlers'[nextEvt] = DoneHandler
  /\ UNCHANGED <<pendingPayments, confirmedPayments, waits, savedTokens,
                 orders, carts, cf>>

\* C33: the timeout removes the registered expectation and
\* rejects its waiter with the request id, an expectation stays findable
\* until it is settled, and every event that answers a request after the
\* timeout of its wait is dropped.
C33_LateSettlementDropped ==
  [][/\ TimeoutRemoves
     /\ StaysFindable
     /\ \A ev \in Events : LateReply(ev) => Dropped]_vars

\* The handler of event e finishes for a transfer of the expected amount
ConfirmsExpected(e) ==
  /\ \E finalized \in BOOLEAN : HandleFinalized(e, finalized)
  /\ ~amountMismatch(handlers[e].hasAmount, handlers[e].amount,
                     waits[handlers[e].wait].amountTokens)

\* C34: when the handler of a matched event with the expected amount
\* finishes, the confirmed result of the expectation's cart is the record of
\* the cart id, the expectation's request id and the event's id, the
\* expectation is in the registry no more, and its promise, unsettled until
\* then, is resolved: a call waiting on it returns that record.
C34_ConfirmRecordsAndResolves ==
  [][\A e \in 1..MaxEvents :
       ConfirmsExpected(e) =>
         LET w == handlers[e].wait IN
         /\ confirmedPayments'[waits[w].cartId] =
              [cartId |-> waits[w].cartId, requestEventId |-> waits[w].eventId,
               transferEventId |-> e]
         /\ ~pendingHas(pendingPayments', waits', waits[w].eventId)
         /\ \A i \in DOMAIN pendingPayments' : pendingPayments'[i] # w
         /\ waits[w].outcome = "pending"
         /\ \A f \in Confirms :
              (cf[f].pc = "waiting" /\ cf[f].wait = w) =>
                cf'[f].result =
                  Result("confirmed", waits[w].eventId, e, "none")]_vars

\* Lines 381-393: the event ev is handed to an expectation that the
\* reply-to lookup did not find, that is, through the sender fallback
FallbackMatch(ev) ==
  LET w == matchPending(pendingPayments, waits, ev.replyTo, ev.sender)
  IN /\ Deliver(ev.isTransfer, ev.replyTo, ev.sender, ev.hasAmount, ev.amount)
     /\ ev.isTransfer
     /\ w # 0
     /\ waits[w].eventId # ev.replyTo

\* What the catch block of the handler of event e does when the parse fails
\* in the state ws, pp
catchOf(pp, ws, cp, h) == rejectUnparsed(pp, ws, cp, h.wait, h.hasReply)

\* C35: when an event is matched to an expectation through the sender
\* fallback only (its reply-to is not the expectation's request id), the
\* handler it starts is one whose catch block, taken when the transfer
\* cannot be decrypted or parsed, leaves the expectation pending and the
\* registry unchanged.
C35_FallbackMatchNeverRejects ==
  [][\A ev \in Events :
       FallbackMatch(ev) =>
         LET after == catchOf(pendingPayments', waits', confirmedPayments',
                              handlers'[nextEvt])
         IN /\ after.waits = waits'
            /\ after.pending = pendingPayments']_vars

\* A cart whose order awaits payment is locked
AwaitingIsLocked(cs, os) ==
  \A c \in CartIds :
    (cs[c].exists /\ os[c].status = "awaiting_payment") =>
      cs[c].lockedForCheckout

\* C36: in every state reached, a cart that exists and whose order is
\* awaiting_payment has its lock flag set, and a step that clears the lock
\* of a cart is a step that moves the cart's order to payment_timeout.
C36_AwaitingPaymentLocked ==
  [][/\ AwaitingIsLocked(carts', orders')
     /\ \A c \in CartIds :
          (carts[c].lockedForCheckout /\ carts'[c].exists
             /\ ~carts'[c].lockedForCheckout) =>
            /\ orders[c].status # "payment_timeout"
            /\ orders'[c].status = "payment_timeout"]_vars

\* A cart unlocked by a payment timeout
C36_Witness ==
  \E c \in CartIds :
    /\ carts[c].exists
    /\ orders[c].status = "payment_timeout"
    /\ ~carts[c].lockedForCheckout

\* The confirm_payment call f learns in this step that the amount check
\* of the transfer passed or failed
AmountValidated(f) ==
  /\ cf[f].pc = "waiting"
  /\ \/ cf'[f].result.kind = "confirmed"
     \/ cf'[f].result.reason = "amount_mismatch"

\* C37: the amount of a matched, parsed transfer is checked only by a
\* handler whose finalization (processTokenTransfer) has been run and has
\* returned, so a rejection for an amount mismatch comes after the token's
\* finalization and persistence; and no step, the rejection included,
\* removes a saved token.
C37_FinalizedBeforeValidated ==
  [][/\ savedTokens \subseteq savedTokens'
     /\ \A f \in Confirms :
          AmountValidated(f) =>
            \E e \in 1..MaxEvents :
              /\ handlers[e].stage = "finalize"
              /\ handlers[e].wait = cf[f].wait
              /\ handlers'[e] = DoneHandler]_vars

\* A call was rejected for an amount mismatch and the token of the one
\* event delivered so far is saved
C37_Witness ==
  /\ nextEvt = 2
  /\ savedTokens = {1}
  /\ cf["f1"].result.reason = "amount_mismatch"

\* C38: updateOrderStatus(cartId, s) sets the order of the cart to s
\* whatever its status was and whatever calls came before, and leaves the
\* other orders alone; for a cart without an order it changes nothing.
C38_ForceSetAnyStatus ==
  [][\A c \in CartIds, status \in OrderStatuses :
       UpdateOrderStatus(c, status) =>
         IF orders[c] = NoOrder
         THEN orders' = orders
         ELSE /\ orders'[c].status = status
              /\ orders'[c].id = orders[c].id
              /\ \A d \in CartIds \ {c} : orders'[d] = orders[d]]_vars

\* An order that was paid has been set back to pending
C38_Witness ==
  \E c \in CartIds : orders[c].status = "pending" /\ orders[c].paidAt

\* ---------------------------------------------------------------- initialize
\* initialize(), lines 168-199: a call on an initialized service returns;
\* any other call makes a new client and awaits its connect
InitializeCall(i) ==
  /\ ini[i] = "idle"
  /\ IF isInitialized
     THEN UNCHANGED <<client, ini>>
     ELSE /\ client' = 1
          /\ ini' = [ini EXCEPT ![i] = "connecting"]
  /\ UNCHANGED <<storeVars, checkoutLocks, serviceVars, nextReq, ck, cf, now,
                 connections, subscriptions>>

\* Lines 199-205: connect has opened a connection; the call subscribes on
\* the service's current client, if it has one, and sets the flag
Connected(i) ==
  /\ ini[i] = "connecting"
  /\ connections' = connections + 1
  /\ subscriptions' = IF client # 0 THEN subscriptions + 1 ELSE subscriptions
  /\ isInitialized' = TRUE
  /\ ini' = [ini EXCEPT ![i] = "idle"]
  /\ UNCHANGED <<storeVars, checkoutLocks, pendingPayments, confirmedPayments,
                 waits, handlers, nextEvt, savedTokens, nextReq, ck, cf, now,
                 client>>

\* connect rejects: initialize throws at line 199
ConnectFails(i) ==
  /\ ini[i] = "connecting"
  /\ ini' = [ini EXCEPT ![i] = "idle"]
  /\ UNCHANGED <<storeVars, checkoutLocks, serviceVars, nextReq, ck, cf, now,
                 client, connections, subscriptions>>

\* The life cycle of the service: initialize calls, shutdowns and, in
\* between, expectations registered and timed out
NextInit ==
  \/ \E i \in Initializers : InitializeCall(i)
  \/ \E i \in Initializers : Connected(i)
  \/ \E i \in Initializers : ConnectFails(i)
  \/ \E eventId \in 1..MaxReq :
       WaitForPaymentCall("c1", eventId, <<"a">>, Binding(<<"a">>),
                          recalculateCart(1))
  \/ \E w \in 1..MaxWaits : TimerFires(w)
  \/ Shutdown

SpecInit == Init /\ [][NextInit]_vars

\* The call i is made while the service is initialized or while another
\* call is in its connect
RepeatedInitialize(i) ==
  /\ InitializeCall(i)
  /\ isInitialized \/ \E j \in Initializers : ini[j] = "connecting"

\* C39: between two shutdowns at most one connection is opened and at most
\* one subscription made, however initialize calls interleave; an
\* initialize call made after or during another one starts no connect.
C39_ConnectsOnce ==
  [][/\ connections' <= 1
     /\ subscriptions' <= 1
     /\ \A i \in Initializers :
          RepeatedInitialize(i) => ini'[i] = "idle"]_vars

\* C40: attempt counts the lookups of a resolve: it is 1 at the first
\* lookup, grows by one with each further lookup and is never above 3.  The
\* lookup that returns an address ends the resolve at once: the caller goes
\* on with that address, and no further lookup or delay follows.
C40_AddressEndsResolve ==
  [][/\ \A k \in Checkouts :
          /\ ck'[k].pc = "resolving" =>
               /\ ck'[k].attempt \in 1..3
               /\ ck[k].pc = "idle" => ck'[k].attempt = 1
               /\ ck[k].pc = "backoff" => ck'[k].attempt = ck[k].attempt + 1
          /\ \A pubkey \in Pubkeys :
               CheckoutQuery(k, pubkey) =>
                 /\ ck'[k].pc \notin {"resolving", "backoff"}
                 /\ ck'[k].delayMs = 0
                 /\ isInitialized =>
                      /\ ck'[k].pc = "sending"
                      /\ ck'[k].customerPubkey = pubkey
     /\ \A f \in Confirms :
          /\ cf'[f].pc = "resolving" =>
               /\ cf'[f].attempt \in 1..3
               /\ cf[f].pc = "idle" => cf'[f].attempt = 1
               /\ cf[f].pc = "backoff" => cf'[f].attempt = cf[f].attempt + 1
          /\ \A pubkey \in Pubkeys :
               ConfirmQuery(f, pubkey) =>
                 /\ cf'[f].pc \notin {"resolving", "backoff"}
                 /\ cf'[f].delayMs = 0
                 /\ cf'[f].pc = "waiting" =>
                      waits'[cf'[f].wait].customerPubkey = pubkey]_vars

\* The third lookup of a resolve is in flight: two lookups found no
\* address, and the relay can answer this one with an address
C40_Witness ==
  \E k \in Checkouts :
    /\ ck[k].pc = "resolving"
    /\ ck[k].attempt = 3
    /\ queryPubkeyByNametag(Normalize(Normalize(ck[k].unicityId))) \cap Pubkeys # {}

====
